---- MODULE Spec2Model ----
(***************************************************************************)
(* Model of the transactional key value store of kv-repl-barebones         *)
(* (storage/storage.go): the kvStore map, the chain of tx frames linked by *)
(* parent pointers, and the six commands dispatched by Store.Process.      *)
(***************************************************************************)
EXTENDS Integers, Sequences, FiniteSets, TLC

\* ---------------------------------------------------------------- bounds
MaxDepth == 2
MaxOps == 2

Keys == {"a", "b"}
Values == {"hi", "bye"}

\* ------------------------------------------------------------- constants
Write == "write"
Read == "read"
Remove == "remove"
Begin == "begin"
Commit == "commit"
Discard == "discard"
NotSupported == "not-a-supported-command"

ErrNil == "nil"
ErrNoCurrentTransation == "There is no current transaction to commit"
ErrKeyNotFound == "Key not found"
ErrUnsupportedCommand == "Unsupported command"

\* the nil *tx of the root frame's parent field
Nil == 0

\* ---------------------------------------------------------------- state
VARIABLES
    kv,       \* Store.kv : the kvStore map
    tx,       \* the tx frames reachable from Store.currTx, tx[1] the root
    currTx,   \* Store.currTx, an index into tx
    cmd,      \* command, key and value of the last Process call
    key,
    value,
    res,      \* the two results of the last Process call
    err,
    pre,      \* the Store as it was when the last Process call started
    snap,     \* what a caller observed right before the innermost begin
    removed,  \* keys removed with no write of them, commit or discard since
    again     \* the last call was a remove of a key that was in removed

vars == <<kv, tx, currTx, cmd, key, value, res, err, pre, snap, removed, again>>

\* the Store struct as a value
Store == [kv |-> kv, tx |-> tx, currTx |-> currTx]

operation(k, v, w) == [key |-> k, value |-> v, isWrite |-> w]

isRoot(t) == t.parent = Nil

hasOperations(t) == Len(t.operations) > 0

\* kvStore.modify whose delete branch leaves the map alone
kvStoreModifyKeep(m, op) ==
    IF op.isWrite
    THEN [x \in (DOMAIN m) \cup {op.key} |-> IF x = op.key THEN op.value ELSE m[x]]
    ELSE m

\* kvStore.modify whose delete branch empties the map
kvStoreModifyClear(m, op) ==
    IF op.isWrite
    THEN [x \in (DOMAIN m) \cup {op.key} |-> IF x = op.key THEN op.value ELSE m[x]]
    ELSE [x \in {} |-> ""]

\* kvStore.modify
kvStoreModify(m, op) ==
    IF op.isWrite
    THEN [x \in (DOMAIN m) \cup {op.key} |-> IF x = op.key THEN op.value ELSE m[x]]
    ELSE [x \in (DOMAIN m) \ {op.key} |-> m[x]]

\* Store.modify that puts the operation in front of the log
modifyPrepend(s, op) ==
    IF s.tx[s.currTx].parent = Nil
    THEN [s EXCEPT !.kv = kvStoreModify(s.kv, op)]
    ELSE [s EXCEPT !.tx[s.currTx].operations = <<op>> \o @]

\* Store.modify that writes through to the map inside a transaction too
modifyThrough(s, op) ==
    IF s.tx[s.currTx].parent = Nil
    THEN [s EXCEPT !.kv = kvStoreModify(s.kv, op)]
    ELSE [s EXCEPT !.kv = kvStoreModify(s.kv, op),
                   !.tx[s.currTx].operations = Append(@, op)]

\* Store.modify
modify(s, op) ==
    IF isRoot(s.tx[s.currTx])
    THEN [s EXCEPT !.kv = kvStoreModify(s.kv, op)]
    ELSE [s EXCEPT !.tx[s.currTx].operations = Append(@, op)]

NewStore ==
    [kv |-> [x \in {} |-> ""],
     tx |-> <<[parent |-> Nil, operations |-> <<>>]>>,
     currTx |-> 1]

write(s, k, v) == modify(s, operation(k, v, TRUE))

Last(S) == CHOOSE i \in S : \A j \in S : j <= i

\* the frame walk of Store.read; the inner loop indexes s.currTx.operations
\* on every round of the walk, whatever frame currentTx points at
RECURSIVE readWalk(_, _, _)
readWalk(s, currentTx, k) ==
    IF isRoot(s.tx[currentTx])
    THEN IF k \in DOMAIN s.kv
         THEN [value |-> s.kv[k], err |-> ErrNil]
         ELSE [value |-> "", err |-> ErrKeyNotFound]
    ELSE LET ops == s.tx[s.currTx].operations
             hits == {i \in 1..Len(ops) : ops[i].key = k}
         IN  IF hits # {}
             THEN IF ~ops[Last(hits)].isWrite
                  THEN [value |-> "", err |-> ErrKeyNotFound]
                  ELSE [value |-> ops[Last(hits)].value, err |-> ErrNil]
             ELSE readWalk(s, s.tx[currentTx].parent, k)

read(s, k) == readWalk(s, s.currTx, k)

\* Store.remove that records the tombstone before looking at the read
removeEager(s, k) ==
    IF read(s, k).err # ErrNil
    THEN [s |-> modify(s, operation(k, "", FALSE)), err |-> ErrKeyNotFound]
    ELSE [s |-> modify(s, operation(k, "", FALSE)), err |-> ErrNil]

\* Store.remove whose tombstone carries the value that was read
removeKeepsValue(s, k) ==
    IF read(s, k).err # ErrNil
    THEN [s |-> s, err |-> ErrKeyNotFound]
    ELSE [s |-> modify(s, operation(k, read(s, k).value, FALSE)), err |-> ErrNil]

remove(s, k) ==
    IF read(s, k).err # ErrNil
    THEN [s |-> s, err |-> ErrKeyNotFound]
    ELSE [s |-> modify(s, operation(k, "", FALSE)), err |-> ErrNil]

\* the loop of commit step 3 run from the newest operation to the oldest
RECURSIVE flushNewestFirst(_, _)
flushNewestFirst(m, ops) ==
    IF ops = <<>> THEN m
    ELSE flushNewestFirst(kvStoreModify(m, ops[Len(ops)]), SubSeq(ops, 1, Len(ops) - 1))

\* the loop of commit step 3: the operations applied to the map one by one
RECURSIVE flush(_, _)
flush(m, ops) ==
    IF ops = <<>> THEN m
    ELSE flush(kvStoreModify(m, Head(ops)), Tail(ops))

\* Store.commit that leaves the flushed operations in the root frame
commitNoClear(s) ==
    IF isRoot(s.tx[s.currTx])
    THEN [s |-> s, err |-> ErrNoCurrentTransation]
    ELSE LET cur == s.tx[s.currTx]
             p == cur.parent
             appended == [s.tx EXCEPT ![p].operations = @ \o cur.operations]
             popped == [s EXCEPT !.tx = SubSeq(appended, 1, p), !.currTx = p]
         IN  IF isRoot(popped.tx[p]) /\ hasOperations(popped.tx[p])
             THEN [s |-> [popped EXCEPT
                            !.kv = flush(popped.kv, popped.tx[p].operations)],
                   err |-> ErrNil]
             ELSE [s |-> popped, err |-> ErrNil]

\* Store.commit that also rejects a transaction without operations
commitEmptyFails(s) ==
    IF isRoot(s.tx[s.currTx]) \/ ~hasOperations(s.tx[s.currTx])
    THEN [s |-> s, err |-> ErrNoCurrentTransation]
    ELSE LET cur == s.tx[s.currTx]
             p == cur.parent
             appended == [s.tx EXCEPT ![p].operations = @ \o cur.operations]
             popped == [s EXCEPT !.tx = SubSeq(appended, 1, p), !.currTx = p]
         IN  IF isRoot(popped.tx[p]) /\ hasOperations(popped.tx[p])
             THEN [s |-> [popped EXCEPT
                            !.kv = flush(popped.kv, popped.tx[p].operations),
                            !.tx[p].operations = <<>>],
                   err |-> ErrNil]
             ELSE [s |-> popped, err |-> ErrNil]

\* Store.commit that assigns the operations to the parent instead of appending
commitReplace(s) ==
    IF isRoot(s.tx[s.currTx])
    THEN [s |-> s, err |-> ErrNoCurrentTransation]
    ELSE LET cur == s.tx[s.currTx]
             p == cur.parent
             appended == [s.tx EXCEPT ![p].operations = cur.operations]
             popped == [s EXCEPT !.tx = SubSeq(appended, 1, p), !.currTx = p]
         IN  IF isRoot(popped.tx[p]) /\ hasOperations(popped.tx[p])
             THEN [s |-> [popped EXCEPT
                            !.kv = flush(popped.kv, popped.tx[p].operations),
                            !.tx[p].operations = <<>>],
                   err |-> ErrNil]
             ELSE [s |-> popped, err |-> ErrNil]

\* Store.commit that puts the operations in front of the parent's
commitPrepend(s) ==
    IF isRoot(s.tx[s.currTx])
    THEN [s |-> s, err |-> ErrNoCurrentTransation]
    ELSE LET cur == s.tx[s.currTx]
             p == cur.parent
             appended == [s.tx EXCEPT ![p].operations = cur.operations \o @]
             popped == [s EXCEPT !.tx = SubSeq(appended, 1, p), !.currTx = p]
         IN  IF isRoot(popped.tx[p]) /\ hasOperations(popped.tx[p])
             THEN [s |-> [popped EXCEPT
                            !.kv = flush(popped.kv, popped.tx[p].operations),
                            !.tx[p].operations = <<>>],
                   err |-> ErrNil]
             ELSE [s |-> popped, err |-> ErrNil]

commit(s) ==
    IF isRoot(s.tx[s.currTx])
    THEN [s |-> s, err |-> ErrNoCurrentTransation]
    ELSE LET cur == s.tx[s.currTx]
             p == cur.parent
             appended == [s.tx EXCEPT ![p].operations = @ \o cur.operations]
             popped == [s EXCEPT !.tx = SubSeq(appended, 1, p), !.currTx = p]
         IN  IF isRoot(popped.tx[p]) /\ hasOperations(popped.tx[p])
             THEN [s |-> [popped EXCEPT
                            !.kv = flush(popped.kv, popped.tx[p].operations),
                            !.tx[p].operations = <<>>],
                   err |-> ErrNil]
             ELSE [s |-> popped, err |-> ErrNil]

\* Store.discard that hands the operations to the parent as commit does
discardMerge(s) ==
    IF isRoot(s.tx[s.currTx])
    THEN s
    ELSE [s EXCEPT !.tx = SubSeq([s.tx EXCEPT ![s.tx[s.currTx].parent].operations =
                                      @ \o s.tx[s.currTx].operations],
                                 1, s.tx[s.currTx].parent),
                   !.currTx = s.tx[s.currTx].parent]

\* Store.discard that drops every open transaction at once
discardAll(s) ==
    IF isRoot(s.tx[s.currTx])
    THEN s
    ELSE [s EXCEPT !.tx = SubSeq(s.tx, 1, 1), !.currTx = 1]

\* the popped frame is unreachable afterwards and leaves tx
discard(s) ==
    IF isRoot(s.tx[s.currTx])
    THEN s
    ELSE [s EXCEPT !.tx = SubSeq(s.tx, 1, s.tx[s.currTx].parent),
                   !.currTx = s.tx[s.currTx].parent]

\* Store.begin that forgets the parent of the new frame
beginOrphan(s) ==
    [s EXCEPT !.tx = Append(s.tx, [parent |-> Nil, operations |-> <<>>]),
              !.currTx = Len(s.tx) + 1]

begin(s) ==
    [s EXCEPT !.tx = Append(s.tx, [parent |-> s.currTx, operations |-> <<>>]),
              !.currTx = Len(s.tx) + 1]

\* Store.Process whose discard reports the missing transaction as commit does
ProcessDiscardFails(s, command, k, v) ==
    CASE command = Write   -> [s |-> write(s, k, v), value |-> "", err |-> ErrNil]
      [] command = Read    -> [s |-> s, value |-> read(s, k).value, err |-> read(s, k).err]
      [] command = Remove  -> [s |-> remove(s, k).s, value |-> "", err |-> remove(s, k).err]
      [] command = Begin   -> [s |-> begin(s), value |-> "", err |-> ErrNil]
      [] command = Discard -> [s |-> discard(s), value |-> "",
                               err |-> IF isRoot(s.tx[s.currTx])
                                       THEN ErrNoCurrentTransation ELSE ErrNil]
      [] command = Commit  -> [s |-> commit(s).s, value |-> "", err |-> commit(s).err]
      [] OTHER             -> [s |-> s, value |-> "", err |-> ErrUnsupportedCommand]

\* Store.Process that returns no error after the switch
ProcessDefaultNil(s, command, k, v) ==
    CASE command = Write   -> [s |-> write(s, k, v), value |-> "", err |-> ErrNil]
      [] command = Read    -> [s |-> s, value |-> read(s, k).value, err |-> read(s, k).err]
      [] command = Remove  -> [s |-> remove(s, k).s, value |-> "", err |-> remove(s, k).err]
      [] command = Begin   -> [s |-> begin(s), value |-> "", err |-> ErrNil]
      [] command = Discard -> [s |-> discard(s), value |-> "", err |-> ErrNil]
      [] command = Commit  -> [s |-> commit(s).s, value |-> "", err |-> commit(s).err]
      [] OTHER             -> [s |-> s, value |-> "", err |-> ErrNil]

\* Store.Process whose read walks Store.currTx itself instead of a copy, so
\* that a walk which reaches the root leaves the root as the current frame
ProcessReadMovesCurrTx(s, command, k, v) ==
    CASE command = Write   -> [s |-> write(s, k, v), value |-> "", err |-> ErrNil]
      [] command = Read    ->
           [s |-> IF \E i \in 1..Len(s.tx[s.currTx].operations) :
                        s.tx[s.currTx].operations[i].key = k
                  THEN s
                  ELSE [s EXCEPT !.tx = SubSeq(s.tx, 1, 1), !.currTx = 1],
            value |-> read(s, k).value, err |-> read(s, k).err]
      [] command = Remove  -> [s |-> remove(s, k).s, value |-> "", err |-> remove(s, k).err]
      [] command = Begin   -> [s |-> begin(s), value |-> "", err |-> ErrNil]
      [] command = Discard -> [s |-> discard(s), value |-> "", err |-> ErrNil]
      [] command = Commit  -> [s |-> commit(s).s, value |-> "", err |-> commit(s).err]
      [] OTHER             -> [s |-> s, value |-> "", err |-> ErrUnsupportedCommand]

Process(s, command, k, v) ==
    CASE command = Write   -> [s |-> write(s, k, v), value |-> "", err |-> ErrNil]
      [] command = Read    -> [s |-> s, value |-> read(s, k).value, err |-> read(s, k).err]
      [] command = Remove  -> [s |-> remove(s, k).s, value |-> "", err |-> remove(s, k).err]
      [] command = Begin   -> [s |-> begin(s), value |-> "", err |-> ErrNil]
      [] command = Discard -> [s |-> discard(s), value |-> "", err |-> ErrNil]
      [] command = Commit  -> [s |-> commit(s).s, value |-> "", err |-> commit(s).err]
      [] OTHER             -> [s |-> s, value |-> "", err |-> ErrUnsupportedCommand]

\* number of frames above the root on the parent chain of frame t
RECURSIVE depthOf(_, _)
depthOf(s, t) == IF isRoot(s.tx[t]) THEN 0 ELSE 1 + depthOf(s, s.tx[t].parent)

Depth(s) == depthOf(s, s.currTx)

RECURSIVE SumLen(_, _)
SumLen(frames, n) == IF n = 0 THEN 0 ELSE Len(frames[n].operations) + SumLen(frames, n - 1)

TotalOps == SumLen(tx, Len(tx))

\* ------------------------------------------------- observation records
NoSnap == [status |-> "none", depth |-> 0, kv |-> [x \in {} |-> ""],
           reads |-> [k \in Keys |-> [value |-> "", err |-> ErrNil]],
           edited |-> FALSE]

SnapAfter(c, r) ==
    IF c = Begin
    THEN [status |-> "open", depth |-> Depth(Store), kv |-> kv,
          reads |-> [k \in Keys |-> read(Store, k)], edited |-> FALSE]
    ELSE IF snap.status = "open" /\ c \in {Write, Read, Remove}
    THEN [snap EXCEPT !.edited = @ \/ (c \in {Write, Remove} /\ r.err = ErrNil)]
    ELSE IF snap.status = "open" /\ c = Discard
    THEN [snap EXCEPT !.status = "closed"]
    ELSE NoSnap

RemovedAfter(c, k, r) ==
    IF c = Remove /\ r.err = ErrNil THEN removed \cup {k}
    ELSE IF c = Write THEN removed \ {k}
    ELSE IF c \in {Commit, Discard} THEN {}
    ELSE removed

\* one completed call Process(c, k, v)
Call(c, k, v) ==
    LET r == Process(Store, c, k, v)
    IN  /\ kv' = r.s.kv
        /\ tx' = r.s.tx
        /\ currTx' = r.s.currTx
        /\ cmd' = c
        /\ key' = k
        /\ value' = v
        /\ res' = r.value
        /\ err' = r.err
        /\ pre' = Store
        /\ snap' = SnapAfter(c, r)
        /\ removed' = RemovedAfter(c, k, r)
        /\ again' = (c = Remove /\ k \in removed)

\* ---------------------------------------------------------------- actions
Init ==
    /\ kv = NewStore.kv
    /\ tx = NewStore.tx
    /\ currTx = NewStore.currTx
    /\ cmd = ""
    /\ key = ""
    /\ value = ""
    /\ res = ""
    /\ err = ErrNil
    /\ pre = NewStore
    /\ snap = NoSnap
    /\ removed = {}
    /\ again = FALSE

DoWrite ==
    \E k \in Keys, v \in Values :
        /\ Depth(Store) = 0 \/ TotalOps < MaxOps
        /\ Call(Write, k, v)

DoRead ==
    \E k \in Keys : Call(Read, k, "")

DoRemove ==
    \E k \in Keys :
        /\ Depth(Store) = 0 \/ TotalOps < MaxOps \/ read(Store, k).err # ErrNil
        /\ Call(Remove, k, "")

DoBegin ==
    /\ Depth(Store) < MaxDepth
    /\ Call(Begin, "", "")

DoCommit == Call(Commit, "", "")

DoDiscard == Call(Discard, "", "")

DoUnsupported ==
    \E k \in Keys : Call(NotSupported, k, "hi")

Next ==
    \/ DoWrite
    \/ DoRead
    \/ DoRemove
    \/ DoBegin
    \/ DoCommit
    \/ DoDiscard
    \/ DoUnsupported

Spec == Init /\ [][Next]_vars

\* ----------------------------------------------------------------- claims

\* the resolution the documentation describes: each visited frame's own log
\* is scanned newest-first, from the current frame up to, not including, the
\* root; the map is consulted when no visited frame has an entry
RECURSIVE Resolve(_, _, _)
Resolve(s, t, k) ==
    IF isRoot(s.tx[t])
    THEN IF k \in DOMAIN s.kv
         THEN [value |-> s.kv[k], err |-> ErrNil]
         ELSE [value |-> "", err |-> ErrKeyNotFound]
    ELSE LET ops == s.tx[t].operations
             hits == {i \in 1..Len(ops) : ops[i].key = k}
         IN  IF hits # {}
             THEN IF ops[Last(hits)].isWrite
                  THEN [value |-> ops[Last(hits)].value, err |-> ErrNil]
                  ELSE [value |-> "", err |-> ErrKeyNotFound]
             ELSE Resolve(s, s.tx[t].parent, k)

\* C1: in every reachable state and for every key, read returns the outcome
\* of the most recent entry found by walking the frames from the current one
\* through each parent below the root, each frame's own log newest-first, and
\* the map only when no visited frame has an entry.
C1_ReadResolvesThroughAncestors ==
    \A k \in Keys : read(Store, k) = Resolve(Store, currTx, k)

\* C2: write(k, v) immediately followed by read(k) returns v with no error,
\* at every depth and whatever the frames and the map hold.
C2_WriteReadRoundTrip ==
    cmd = Write => read(Store, key) = [value |-> value, err |-> ErrNil]

\* a write inside a nested transaction whose frame already held another
\* value for the same key
C2_Witness ==
    /\ cmd = Write
    /\ Depth(Store) = 2
    /\ \E i \in 1..(Len(tx[currTx].operations) - 1) :
          /\ tx[currTx].operations[i].key = key
          /\ tx[currTx].operations[i].isWrite
          /\ tx[currTx].operations[i].value # value
    /\ read(Store, key).value = value

\* C3: after a successful remove(k), a second remove(k) with no write of k,
\* commit or discard in between fails with KeyNotFound, begin calls in
\* between included.
C3_DoubleRemoveFails ==
    again => err = ErrKeyNotFound

\* the map that results when, for every key, the chronologically last
\* operation of ops on it decides
LastWins(m, ops) ==
    LET hits(k) == {i \in 1..Len(ops) : ops[i].key = k}
        live == {k \in (DOMAIN m) \cup Keys :
                    IF hits(k) = {} THEN k \in DOMAIN m
                    ELSE ops[Last(hits(k))].isWrite}
    IN  [k \in live |-> IF hits(k) = {} THEN m[k] ELSE ops[Last(hits(k))].value]

\* C4: after the commit that takes the depth from 1 to 0, the map is the map
\* before it with the committed log applied in chronological order, so that
\* the last operation on each key decides.
C4_CommitFlushOrdering ==
    (cmd = Commit /\ Depth(pre) = 1) =>
        /\ Depth(Store) = 0
        /\ kv = LastWins(pre.kv, pre.tx[pre.currTx].operations)

\* a flushing commit whose log wrote a key and later removed or rewrote it
C4_Witness ==
    /\ cmd = Commit
    /\ Depth(pre) = 1
    /\ LET ops == pre.tx[pre.currTx].operations
       IN  \E i, j \in 1..Len(ops) :
              /\ i < j
              /\ ops[i].key = ops[j].key
              /\ ops[i].isWrite
              /\ ops[i].value # ops[j].value
              /\ \A n \in (j + 1)..Len(ops) : ops[n].key # ops[j].key
              /\ ops[j].isWrite => kv[ops[j].key] = ops[j].value
              /\ ~ops[j].isWrite => ops[j].key \notin DOMAIN kv

\* C5: begin, then writes and removes in the new frame, then discard restores
\* the depth, the map and the result of read for every key.
C5_DiscardRollsBack ==
    snap.status = "closed" =>
        /\ Depth(Store) = snap.depth
        /\ kv = snap.kv
        /\ \A k \in Keys : read(Store, k) = snap.reads[k]

\* a discard from depth 2 of a frame that held operations
C5_Witness ==
    /\ snap.status = "closed"
    /\ snap.edited
    /\ snap.depth = 1
    /\ cmd = Discard
    /\ pre.tx[pre.currTx].operations # <<>>
    /\ \E k \in Keys : read(pre, k) # read(Store, k)

\* C6: an operation run at depth >= 1 that leaves the depth >= 1 leaves the
\* map unchanged; the map changes only through write or remove at depth 0
\* and through the commit that takes the depth from 1 to 0.
C6_FlushOnlyOnFullUnwind ==
    /\ (cmd # "" /\ Depth(pre) >= 1 /\ Depth(Store) >= 1) => kv = pre.kv
    /\ kv # pre.kv =>
          \/ cmd \in {Write, Remove} /\ Depth(pre) = 0
          \/ cmd = Commit /\ Depth(pre) = 1 /\ Depth(Store) = 0

\* a write inside a transaction of a value the map does not hold for the key
C6_Witness ==
    /\ cmd = Write
    /\ Depth(pre) >= 1
    /\ tx[currTx].operations = Append(pre.tx[pre.currTx].operations,
                                      operation(key, value, TRUE))
    /\ key \in DOMAIN kv
    /\ kv[key] # value

\* C7: after every completed Process call the root frame's log is empty.
C7_BaseLogEmpty ==
    \A i \in 1..Len(tx) : isRoot(tx[i]) => tx[i].operations = <<>>

\* a commit that unwound to depth 0 with operations to flush
C7_Witness ==
    /\ cmd = Commit
    /\ Depth(pre) = 1
    /\ Depth(Store) = 0
    /\ pre.tx[pre.currTx].operations # <<>>
    /\ kv # pre.kv

\* C8: commit fails with NoActiveTransaction exactly at depth 0 and returns
\* no error at every depth >= 1.
C8_CommitFailsIffDepthZero ==
    cmd = Commit =>
        /\ Depth(pre) = 0 => err = ErrNoCurrentTransation
        /\ Depth(pre) >= 1 => err = ErrNil

\* a commit of a transaction without operations, nested in another one
C8_Witness ==
    /\ cmd = Commit
    /\ Depth(pre) = 2
    /\ pre.tx[pre.currTx].operations = <<>>
    /\ err = ErrNil

\* C9: a read or remove that returns KeyNotFound and a commit that returns
\* NoActiveTransaction leave the map, the depth and every frame's log as
\* they were.
C9_FailureNoSideEffects ==
    (\/ cmd \in {Read, Remove} /\ err = ErrKeyNotFound
     \/ cmd = Commit /\ err = ErrNoCurrentTransation) =>
        /\ kv = pre.kv
        /\ Depth(Store) = Depth(pre)
        /\ currTx = pre.currTx
        /\ tx = pre.tx

\* a failed remove inside a transaction that holds operations
C9_Witness ==
    /\ cmd = Remove
    /\ err = ErrKeyNotFound
    /\ Depth(pre) >= 1
    /\ pre.tx[pre.currTx].operations # <<>>

\* C10: remove(k) succeeds exactly when read(k) in the same state returns a
\* value and fails with KeyNotFound otherwise; after a successful remove, at
\* depth 0 or inside a transaction, read(k) fails with KeyNotFound.
C10_RemoveFollowsRead ==
    cmd = Remove =>
        /\ err = ErrNil <=> read(pre, key).err = ErrNil
        /\ err # ErrNil => err = ErrKeyNotFound
        /\ err = ErrNil => read(Store, key) = [value |-> "", err |-> ErrKeyNotFound]

\* a successful remove at depth 0 of a key the map held
C10_Witness ==
    /\ cmd = Remove
    /\ err = ErrNil
    /\ Depth(pre) = 0
    /\ key \in DOMAIN pre.kv

\* C11: the depth is 0 on a fresh engine and never negative; begin raises it
\* by exactly one, a successful commit and a discard at depth >= 1 lower it
\* by exactly one, and write, read, remove, a failed commit and a discard at
\* depth 0 leave it unchanged.
C11_DepthAccounting ==
    /\ Depth(Store) >= 0
    /\ cmd = "" => Depth(Store) = 0
    /\ cmd = Begin => Depth(Store) = Depth(pre) + 1
    /\ (cmd = Commit /\ err = ErrNil) => Depth(Store) = Depth(pre) - 1
    /\ (cmd = Discard /\ Depth(pre) >= 1) => Depth(Store) = Depth(pre) - 1
    /\ (\/ cmd \in {Write, Read, Remove}
        \/ cmd = Commit /\ err # ErrNil
        \/ cmd = Discard /\ Depth(pre) = 0) => Depth(Store) = Depth(pre)

\* a discard inside a nested transaction
C11_Witness ==
    /\ cmd = Discard
    /\ Depth(pre) = 2
    /\ Depth(Store) = 1

\* C12: discard at depth 0 returns no error and leaves the map, the depth and
\* the root frame unchanged; begin and discard return an empty result and no
\* error in every state.
C12_DiscardAtBaseIsNoOp ==
    /\ (cmd = Discard /\ Depth(pre) = 0) =>
          /\ kv = pre.kv
          /\ Depth(Store) = 0
          /\ tx = pre.tx
          /\ currTx = pre.currTx
    /\ cmd \in {Begin, Discard} => (res = "" /\ err = ErrNil)

\* a discard with no open transaction and values written at depth 0
C12_Witness ==
    /\ cmd = Discard
    /\ Depth(pre) = 0
    /\ DOMAIN kv = Keys
    /\ err = ErrNil

\* C13: the commit of a frame whose log is empty, at any depth >= 1, returns
\* no error, lowers the depth by one and leaves the map and the parent
\* frame's log unchanged.
C13_EmptyCommitIsSafe ==
    (cmd = Commit /\ Depth(pre) >= 1 /\ pre.tx[pre.currTx].operations = <<>>) =>
        /\ err = ErrNil
        /\ Depth(Store) = Depth(pre) - 1
        /\ kv = pre.kv
        /\ currTx = pre.tx[pre.currTx].parent
        /\ tx[currTx].operations = pre.tx[currTx].operations

\* an empty commit into a parent transaction that holds operations
C13_Witness ==
    /\ cmd = Commit
    /\ Depth(pre) = 2
    /\ pre.tx[pre.currTx].operations = <<>>
    /\ tx[currTx].operations # <<>>
    /\ DOMAIN kv # {}

\* C14: Process with a command name outside the six commands returns an
\* empty result and UnsupportedCommand and leaves the map, the depth and
\* every frame's log unchanged.
C14_UnsupportedCommand ==
    cmd \notin {"", Write, Read, Remove, Begin, Commit, Discard} =>
        /\ res = ""
        /\ err = ErrUnsupportedCommand
        /\ kv = pre.kv
        /\ tx = pre.tx
        /\ currTx = pre.currTx

\* an unsupported command inside a transaction that holds operations
C14_Witness ==
    /\ cmd = NotSupported
    /\ Depth(pre) >= 1
    /\ tx[currTx].operations # <<>>
    /\ err = ErrUnsupportedCommand

\* C15: after a commit from depth >= 2 the parent frame's log is its log
\* before the commit followed by the committed frame's log, nothing
\* reordered, dropped or deduplicated; hence a tombstone committed from a
\* child after a parent's write of the same key makes read in the parent
\* return KeyNotFound.
C15_CommitConcatenates ==
    (cmd = Commit /\ Depth(pre) >= 2) =>
        LET c == pre.currTx
            p == pre.tx[c].parent
            parentOps == pre.tx[p].operations
            childOps == pre.tx[c].operations
            hits(k) == {i \in 1..Len(childOps) : childOps[i].key = k}
        IN  /\ currTx = p
            /\ tx[p].operations = parentOps \o childOps
            /\ \A k \in Keys :
                  (/\ \E i \in 1..Len(parentOps) :
                         parentOps[i].key = k /\ parentOps[i].isWrite
                   /\ hits(k) # {}
                   /\ ~childOps[Last(hits(k))].isWrite)
                  => read(Store, k) = [value |-> "", err |-> ErrKeyNotFound]

\* a child's tombstone committed onto a parent's write of the same key
C15_Witness ==
    /\ cmd = Commit
    /\ Depth(pre) = 2
    /\ Len(tx[currTx].operations) = 2
    /\ tx[currTx].operations[1].isWrite
    /\ ~tx[currTx].operations[2].isWrite
    /\ tx[currTx].operations[1].key = tx[currTx].operations[2].key
    /\ Len(pre.tx[pre.currTx].operations) = 1
    /\ read(Store, tx[currTx].operations[1].key).err = ErrKeyNotFound

\* the operation a write or remove call makes
OpOfCall == IF cmd = Write THEN operation(key, value, TRUE)
            ELSE operation(key, "", FALSE)

\* C16: at depth >= 1 a write or a successful remove appends exactly one
\* operation to the end of the current frame's log, changes no entry of that
\* log and leaves every ancestor's log unchanged; at depth 0 it changes only
\* the map entry for the key and no frame log.
C16_RoutingAppendOnly ==
    (cmd \in {Write, Remove} /\ err = ErrNil) =>
        /\ currTx = pre.currTx
        /\ Len(tx) = Len(pre.tx)
        /\ \A i \in 1..Len(tx) : i # currTx => tx[i] = pre.tx[i]
        /\ tx[currTx].parent = pre.tx[currTx].parent
        /\ IF Depth(pre) >= 1
           THEN /\ tx[currTx].operations =
                      Append(pre.tx[currTx].operations, OpOfCall)
                /\ kv = pre.kv
           ELSE /\ tx = pre.tx
                /\ \A k \in Keys \ {key} :
                      /\ k \in DOMAIN kv <=> k \in DOMAIN pre.kv
                      /\ k \in DOMAIN kv => kv[k] = pre.kv[k]
                /\ cmd = Write => (key \in DOMAIN kv /\ kv[key] = value)
                /\ cmd = Remove => key \notin DOMAIN kv

\* a successful remove inside a transaction whose log held an entry already
C16_Witness ==
    /\ cmd = Remove
    /\ err = ErrNil
    /\ Depth(pre) >= 1
    /\ pre.tx[pre.currTx].operations # <<>>
    /\ Len(tx[currTx].operations) = 2
    /\ tx[currTx].operations[2] = operation(key, "", FALSE)

\* C17: read(k) right after a successful commit returns what read(k)
\* returned right before it, for the commit into a parent transaction and
\* for the commit that flushes to the map.
C17_CommitPreservesVisibility ==
    (cmd = Commit /\ err = ErrNil) =>
        \A k \in Keys : read(Store, k) = read(pre, k)

\* C18: read leaves the map, the depth, the current frame and every frame's
\* log unchanged, whatever it returns, so that a second read of the same key
\* returns the same result.
C18_ReadHasNoSideEffects ==
    cmd = Read =>
        /\ kv = pre.kv
        /\ tx = pre.tx
        /\ currTx = pre.currTx
        /\ Depth(Store) = Depth(pre)
        /\ read(Store, key) = [value |-> res, err |-> err]

\* a read in a nested transaction whose walk reached the map and found nothing
C18_Witness ==
    /\ cmd = Read
    /\ err = ErrKeyNotFound
    /\ Depth(pre) = 2
    /\ \A i \in 1..Len(pre.tx[pre.currTx].operations) :
          pre.tx[pre.currTx].operations[i].key # key

\* the Store after n commits
RECURSIVE commitN(_, _)
commitN(s, n) == IF n = 0 THEN s ELSE commitN(commit(s).s, n - 1)

\* C19: for distinct keys k and k2, write(k, v) or remove(k) does not change
\* the result of read(k2), at depth 0 or inside a transaction, neither right
\* away nor after later commits of the same frames.
C19_KeysAreIndependent ==
    cmd \in {Write, Remove} =>
        \A k2 \in Keys \ {key} : \A n \in 0..Depth(pre) :
            read(commitN(Store, n), k2) = read(commitN(pre, n), k2)

\* a successful remove in a nested transaction while another key is readable
C19_Witness ==
    /\ cmd = Remove
    /\ err = ErrNil
    /\ Depth(pre) = 2
    /\ \E k2 \in Keys \ {key} :
          /\ read(Store, k2).err = ErrNil
          /\ read(commitN(Store, 2), k2).err = ErrNil
          /\ read(commitN(Store, 2), key).err = ErrKeyNotFound

\* the frames visited from frame t along parent, at most fuel steps
RECURSIVE Walk(_, _, _)
Walk(s, t, fuel) ==
    IF fuel = 0 \/ t \notin 1..Len(s.tx) \/ s.tx[t].parent = Nil
    THEN <<t>>
    ELSE <<t>> \o Walk(s, s.tx[t].parent, fuel - 1)

\* C20: the parent chain from the current frame is finite and acyclic and
\* ends at the one base frame, so the frame walk of read visits at most
\* depth frames above the base and reaches it.
C20_ParentChainEndsAtBase ==
    LET w == Walk(Store, currTx, Len(tx))
    IN  /\ currTx \in 1..Len(tx)
        /\ \A i \in 1..Len(tx) : tx[i].parent \in 0..Len(tx)
        /\ {i \in 1..Len(tx) : tx[i].parent = Nil} = {1}
        /\ w[Len(w)] = 1
        /\ \A i, j \in 1..Len(w) : i # j => w[i] # w[j]
        /\ Len(w) <= Len(tx)
        /\ \A i \in 1..(Len(w) - 1) : tx[w[i]].parent = w[i + 1]

\* a read at depth 2 whose walk passed both frames and ended at the map
C20_Witness ==
    /\ cmd = Read
    /\ err = ErrNil
    /\ Len(Walk(Store, currTx, Len(tx))) = 3
    /\ \A i \in 1..Len(tx[currTx].operations) : tx[currTx].operations[i].key # key
    /\ key \in DOMAIN kv
    /\ res = kv[key]

====
